---------------------------- MODULE Spec2Model ----------------------------
(***************************************************************************)
(* threadx-mcpp: the C++ wrapper classes (thread, mutex, semaphore) over   *)
(* the ThreadX kernel.  The wrapper code is translated statement by        *)
(* statement; the kernel services it calls (tx_semaphore_get/put,          *)
(* tx_mutex_get/put, tx_thread_entry_exit_notify, tx_thread_terminate,     *)
(* tx_thread_delete, the thread shell) are modelled by their documented    *)
(* ThreadX 6.1 behaviour at the place where the wrapper calls them.        *)
(*                                                                         *)
(* Threads interleave at kernel-call granularity: ThreadX is preemptive,   *)
(* so any READY thread may run between two statements of another.  Code    *)
(* run by the kernel with preemption disabled (the entry/exit notify       *)
(* callback) is part of the step that triggers it.                         *)
(*                                                                         *)
(* assert() is modelled as compiled in: a failed assertion stops the       *)
(* system (fault = "assert").                                              *)
(***************************************************************************)
EXTENDS Naturals, Sequences, FiniteSets

\* The threads of the system.  In the join specification "T" is the thread
\* being joined and destroyed; every thread may call the operations.
Threads == {"T", "J1", "J2"}

Target == "T"

NULL == "nullptr"

\* binary_semaphore exit_cond: the local of thread::join() in j's stack frame.
exit_cond(j) == "exit_cond of " \o j

\* The semaphore object the semaphore specification operates on.
sem == "sem"

Sems == {sem} \cup {exit_cond(j) : j \in Threads}

\* tick_timer::duration(0), the timeout of the try_ variants (TX_NO_WAIT).
TX_NO_WAIT == 0

\* The width of native::ULONG (tick_timer::rep) in the model; 32 in the code.
ULONG_BITS == 2

\* native::infinite_delay = TX_WAIT_FOREVER, the ULONG of all ones.
infinity == 2^ULONG_BITS - 1

\* counting_semaphore<MAX_VALUE>: the template argument explored.
MAX_VALUE == 2

\* Largest update passed to semaphore::release(update).
MaxUpdate == 2

\* Cap on the total number of units the threads ask release() to give.
MaxReleased == 2

\* Cap on the recursion depth of the mutex (tx_mutex_ownership_count).
MaxRecursion == 3

\* Largest priority passed to thread::set_priority.
MaxPriority == 2

VARIABLES
    tx_thread_state,              \* TX_THREAD::tx_thread_state of each thread
    tx_thread_timer,              \* TX_THREAD::tx_thread_timer: ticks left of a timed suspension, 0 if inactive
    tx_thread_suspend_status,     \* TX_THREAD::tx_thread_suspend_status: what the suspended service returns
    tx_thread_delayed_suspend,    \* TX_THREAD::tx_thread_delayed_suspend
    tx_thread_user_priority,      \* TX_THREAD::tx_thread_user_priority
    tx_thread_id,                 \* TX_THREAD::tx_thread_id valid (created, not deleted)
    tx_thread_entry_exit_notify,  \* TX_THREAD::tx_thread_entry_exit_notify
    entry_exit_param_,            \* TX_THREAD_USER_EXTENSION void* entry_exit_param_
    tx_semaphore_id,              \* TX_SEMAPHORE::tx_semaphore_id is TX_SEMAPHORE_ID (a created semaphore)
    tx_semaphore_count,           \* TX_SEMAPHORE::tx_semaphore_count
    tx_semaphore_suspension_list, \* TX_SEMAPHORE suspension list (FIFO)
    max_,                         \* max() of the type of the semaphore sem
    desired_,                     \* the constructor argument of sem
    tx_mutex_owner,               \* TX_MUTEX::tx_mutex_owner
    tx_mutex_ownership_count,     \* TX_MUTEX::tx_mutex_ownership_count
    tx_mutex_suspension_list,     \* threads suspended on the mutex
    tx_timer_system_clock,        \* _tx_timer_system_clock, the tick count tx_time_get() returns
    program,                      \* the part of the wrapper the application uses
    pc,                           \* where each thread is in the wrapper code
    update_,                      \* semaphore::put: the local 'update' of each caller
    success_,                     \* semaphore::put: the local 'success' of each caller
    timeout_,                     \* the tick count a suspended caller passed to the kernel
    elapsed,                      \* timer ticks since the caller was suspended by its kernel call
    calls,                        \* native kernel calls made by each thread's current or last operation
    status_,                      \* the status the last of these calls returned, "none" before it returns
    result,                       \* the operation that last returned to each thread, and its value
    held,                         \* lock()/successful try_lock() returns minus unlock() returns
    acquired,                     \* completed acquire() plus successful try_acquire() calls on sem
    released,                     \* tx_semaphore_put calls made on sem so far
    fault                         \* "none", or why the system stopped

vars == <<tx_thread_state, tx_thread_timer, tx_thread_suspend_status,
          tx_thread_delayed_suspend, tx_thread_user_priority, tx_thread_id,
          tx_thread_entry_exit_notify, entry_exit_param_, tx_semaphore_id,
          tx_semaphore_count, tx_semaphore_suspension_list, max_, desired_,
          tx_mutex_owner, tx_mutex_ownership_count, tx_mutex_suspension_list,
          tx_timer_system_clock, program, pc, update_, success_, timeout_,
          elapsed, calls, status_, result, held, acquired, released, fault>>

\* The fields of TX_THREAD that the scheduler and the timer write.
txThread == <<tx_thread_state, tx_thread_timer, tx_thread_suspend_status,
              tx_thread_delayed_suspend>>
txSemaphore == <<tx_semaphore_id, tx_semaphore_count, tx_semaphore_suspension_list>>
threadVars == <<tx_thread_id, tx_thread_entry_exit_notify, entry_exit_param_>>
mutexVars == <<tx_mutex_owner, tx_mutex_ownership_count, tx_mutex_suspension_list, held>>
semGhost == <<max_, desired_, update_, success_, acquired, released>>
clockVars == <<tx_timer_system_clock, program, tx_thread_user_priority>>
waitGhost == <<timeout_, elapsed>>
callGhost == <<calls, status_>>

----------------------------------------------------------------------------
\* The part of the kernel state that a semaphore service reads and writes.

K == [state          |-> tx_thread_state,
      timer          |-> tx_thread_timer,
      suspend_status |-> tx_thread_suspend_status,
      delayed        |-> tx_thread_delayed_suspend,
      id             |-> tx_semaphore_id,
      count          |-> tx_semaphore_count,
      susp           |-> tx_semaphore_suspension_list]

Commit(k) ==
    /\ tx_thread_state' = k.state
    /\ tx_thread_timer' = k.timer
    /\ tx_thread_suspend_status' = k.suspend_status
    /\ tx_thread_delayed_suspend' = k.delayed
    /\ tx_semaphore_id' = k.id
    /\ tx_semaphore_count' = k.count
    /\ tx_semaphore_suspension_list' = k.susp

\* A faulty variant of tx_thread_system_suspend: a timer is started for
\* TX_WAIT_FOREVER as for any other timeout.
tx_thread_system_suspend_timed(k, t, state, wait_option) ==
    [k EXCEPT !.state[t] = state, !.timer[t] = wait_option]

\* The kernel suspends the calling thread t in a service: it waits in
\* 'state', with a timeout of wait_option ticks unless that is
\* TX_WAIT_FOREVER, for which no timer is started.
tx_thread_system_suspend(k, t, state, wait_option) ==
    [k EXCEPT !.state[t] = state,
              !.timer[t] = IF wait_option = infinity THEN 0 ELSE wait_option]

\* The kernel ends the suspension of thread w, whose service returns
\* 'status': w is READY again, or TX_SUSPENDED if tx_thread_suspend was
\* called on it in the meantime.
tx_thread_system_resume(k, w, status) ==
    [k EXCEPT !.state[w] = IF k.delayed[w] THEN "TX_SUSPENDED" ELSE "TX_READY",
              !.delayed[w] = FALSE,
              !.timer[w] = 0,
              !.suspend_status[w] = status]

\* tx_semaphore_create(this, name, desired): the count starts at 'desired'.
\* There is no ceiling argument: the constructor's 'max' is not passed on.
tx_semaphore_create(k, s, max, desired) ==
    [k EXCEPT !.id[s] = TRUE, !.count[s] = desired, !.susp[s] = <<>>]

\* semaphore::semaphore(max, desired, name): tx_semaphore_create(this, name, desired)
semaphore(k, s, max, desired) == tx_semaphore_create(k, s, max, desired)

\* binary_semaphore::binary_semaphore(desired = 0) : semaphore(1, desired, ...)
binary_semaphore(k, s) == semaphore(k, s, 1, 0)

\* A pointer that is no created semaphore: the error-checking service
\* answers TX_SEMAPHORE_ERROR.
invalid(k, s) == s = NULL \/ ~k.id[s]

\* tx_semaphore_get(this, wait_option) called by thread t.
tx_semaphore_get(k, t, s, wait_option) ==
    IF invalid(k, s)
    THEN [k |-> k, status |-> "TX_SEMAPHORE_ERROR"]
    ELSE IF k.count[s] > 0
    THEN [k |-> [k EXCEPT !.count[s] = @ - 1], status |-> "TX_SUCCESS"]
    ELSE IF wait_option = TX_NO_WAIT
    THEN [k |-> k, status |-> "TX_NO_INSTANCE"]
    ELSE [k |-> [tx_thread_system_suspend(k, t, "TX_SEMAPHORE_SUSP", wait_option)
                    EXCEPT !.susp[s] = Append(@, t)],
          status |-> "suspended"]

\* A faulty variant of tx_semaphore_put: the suspended threads are left
\* alone, the count is incremented.
tx_semaphore_put_count(k, s) ==
    IF invalid(k, s)
    THEN [k |-> k, status |-> "TX_SEMAPHORE_ERROR"]
    ELSE [k |-> [k EXCEPT !.count[s] = @ + 1], status |-> "TX_SUCCESS"]

\* tx_semaphore_put(this): the first suspended thread is resumed and is given
\* the instance; with no thread suspended the count is incremented.
tx_semaphore_put(k, s) ==
    IF invalid(k, s)
    THEN [k |-> k, status |-> "TX_SEMAPHORE_ERROR"]
    ELSE IF k.susp[s] # <<>>
    THEN [k |-> [tx_thread_system_resume(k, Head(k.susp[s]), "TX_SUCCESS")
                    EXCEPT !.susp[s] = Tail(@)],
          status |-> "TX_SUCCESS"]
    ELSE [k |-> [k EXCEPT !.count[s] = @ + 1], status |-> "TX_SUCCESS"]

\* A faulty variant of the loop condition of semaphore::put: success is not
\* tested.
put_while_ignoring_success(success, update) == update > 0

\* semaphore::put, the loop condition: while (success && (update > 0))
put_while(success, update) == success /\ update > 0

\* semaphore::put, the loop run without preemption:
\* while (success && (update > 0)) { success = TX_SUCCESS == tx_semaphore_put(this); update--; }
\* The result is the kernel state and the number of kernel calls made.
RECURSIVE semaphore_put_while(_, _, _, _, _)
semaphore_put_while(k, s, update, success, n) ==
    IF put_while(success, update)
    THEN LET r == tx_semaphore_put(k, s) IN
         semaphore_put_while(r.k, s, update - 1, r.status = "TX_SUCCESS", n + 1)
    ELSE [k |-> k, success |-> success, calls |-> n]

\* semaphore::put(update): bool success = true; the loop; return success
semaphore_put(k, s, update) == semaphore_put_while(k, s, update, TRUE, 0)

\* semaphore::release(update): (void)put(update)
semaphore_release(k, s, update) == semaphore_put(k, s, update).k

----------------------------------------------------------------------------
\* thread.cpp

finished(t) == tx_thread_state[t] \in {"TX_COMPLETED", "TX_TERMINATED"}

\* A faulty variant of get_state: the current thread is not asked for.
get_state_any_current(cur, t) ==
    CASE tx_thread_state[t] = "TX_READY" -> "running"
      [] tx_thread_state[t] = "TX_COMPLETED" -> "completed"
      [] tx_thread_state[t] = "TX_TERMINATED" -> "terminated"
      [] OTHER -> "suspended"

\* thread::get_state() of thread t, read by thread cur (get_current() = cur).
get_state(cur, t) ==
    CASE tx_thread_state[t] = "TX_READY" -> IF cur = t THEN "running" ELSE "ready"
      [] tx_thread_state[t] = "TX_COMPLETED" -> "completed"
      [] tx_thread_state[t] = "TX_TERMINATED" -> "terminated"
      [] OTHER -> "suspended"

get_entry_exit_param(t) == entry_exit_param_[t]

\* thread::joinable()
joinable(cur, t) ==
    /\ get_state(cur, t) # "completed"
    /\ get_state(cur, t) # "terminated"
    /\ NULL = get_entry_exit_param(t)

\* A faulty variant of join_exit_callback: the test of id is missing.
join_exit_callback_any_id(k, t, id) ==
    IF get_entry_exit_param(t) = NULL
    THEN {[k |-> semaphore_release(k, NULL, 1), fault |-> "none"],
          [k |-> k, fault |-> "nullptr"]}
    ELSE {[k |-> semaphore_release(k, get_entry_exit_param(t), 1), fault |-> "none"]}

\* thread::join_exit_callback(t, id): the outcomes of the call.  With a null
\* parameter exit_cond->release() is a call through a null pointer: the
\* kernel's error checking rejects the null semaphore (nothing happens) or
\* the access faults.
join_exit_callback(k, t, id) ==
    IF id = "TX_THREAD_EXIT"
    THEN IF get_entry_exit_param(t) = NULL
         THEN {[k |-> semaphore_release(k, NULL, 1), fault |-> "none"],
               [k |-> k, fault |-> "nullptr"]}
         ELSE {[k |-> semaphore_release(k, get_entry_exit_param(t), 1), fault |-> "none"]}
    ELSE {[k |-> k, fault |-> "none"]}

\* The kernel calling a thread's entry/exit notify callback, if one is set.
notify(k, t, id) ==
    IF tx_thread_entry_exit_notify[t] = NULL
    THEN {[k |-> k, fault |-> "none"]}
    ELSE join_exit_callback(k, t, id)

runs(t) == fault = "none" /\ tx_thread_state[t] = "TX_READY"

\* The thread shell starts the entry function of the thread created with
\* TX_AUTO_START (thread::thread), after the TX_THREAD_ENTRY notification.
thread_entry(t) ==
    /\ runs(t)
    /\ pc[t] = "created"
    /\ \E o \in notify(K, t, "TX_THREAD_ENTRY") :
          /\ Commit(o.k)
          /\ fault' = o.fault
    /\ pc' = [pc EXCEPT ![t] = "idle"]
    /\ UNCHANGED <<threadVars, mutexVars, semGhost, clockVars, waitGhost,
                   callGhost, result>>

\* The entry function returns: the shell sets TX_COMPLETED and, preemption
\* disabled, makes the TX_THREAD_EXIT notification.
thread_exit(t) ==
    /\ runs(t)
    /\ t = Target
    /\ pc[t] = "idle"
    /\ \E o \in notify([K EXCEPT !.state[t] = "TX_COMPLETED"], t, "TX_THREAD_EXIT") :
          /\ Commit(o.k)
          /\ fault' = o.fault
    /\ pc' = [pc EXCEPT ![t] = "exited"]
    /\ UNCHANGED <<threadVars, mutexVars, semGhost, clockVars, waitGhost,
                   callGhost, result>>

\* A faulty variant of join_identify: the asserts of join() ask nothing of
\* the kernel.
join_identify_none(j) == 0

\* The calls of tx_thread_identify in the two asserts of thread::join():
\* get_state() asks for the current thread if the state is TX_READY, and
\* this_thread::get_id() does if the first assert passed.
join_identify(j) ==
    (IF tx_thread_state[Target] = "TX_READY" THEN 1 ELSE 0)
       + (IF joinable(j, Target) THEN 1 ELSE 0)

\* thread::join(), called by j on Target: the two asserts and the
\* construction of exit_cond (tx_semaphore_create).
thread_join(j) ==
    /\ runs(j)
    /\ pc[j] = "idle"
    /\ tx_thread_id[Target]
    /\ IF joinable(j, Target) /\ j # Target
       THEN /\ Commit(binary_semaphore(K, exit_cond(j)))
            /\ pc' = [pc EXCEPT ![j] = "set_entry_exit_callback"]
            /\ calls' = [calls EXCEPT ![j] = join_identify(j) + 1]
            /\ status_' = [status_ EXCEPT ![j] = "TX_SUCCESS"]
            /\ fault' = fault
       ELSE /\ fault' = "assert"
            /\ calls' = [calls EXCEPT ![j] = join_identify(j)]
            /\ UNCHANGED <<txThread, txSemaphore, pc, status_>>
    /\ UNCHANGED <<threadVars, mutexVars, semGhost, clockVars, waitGhost, result>>

\* set_entry_exit_callback: tx_thread_entry_exit_notify(this, func).  The
\* kernel stores the callback of a valid thread.  A deleted thread is a
\* destroyed object: the checked kernel answers TX_THREAD_ERROR, the
\* unchecked one stores the pointer.
set_entry_exit_callback_notify(j) ==
    /\ runs(j)
    /\ pc[j] = "set_entry_exit_callback"
    /\ \/ /\ tx_thread_entry_exit_notify' =
                [tx_thread_entry_exit_notify EXCEPT ![Target] = "join_exit_callback"]
          /\ pc' = [pc EXCEPT ![j] = "entry_exit_param_"]
          /\ status_' = [status_ EXCEPT ![j] = "TX_SUCCESS"]
       \/ /\ ~tx_thread_id[Target]
          /\ tx_thread_entry_exit_notify' = tx_thread_entry_exit_notify
          /\ pc' = [pc EXCEPT ![j] = "acquire"]
          /\ status_' = [status_ EXCEPT ![j] = "TX_THREAD_ERROR"]
    /\ calls' = [calls EXCEPT ![j] = @ + 1]
    /\ UNCHANGED <<txThread, tx_thread_id, entry_exit_param_, txSemaphore,
                   mutexVars, semGhost, clockVars, waitGhost, result, fault>>

\* set_entry_exit_callback: entry_exit_param_ = param, after TX_SUCCESS.
set_entry_exit_callback_param(j) ==
    /\ runs(j)
    /\ pc[j] = "entry_exit_param_"
    /\ entry_exit_param_' = [entry_exit_param_ EXCEPT ![Target] = exit_cond(j)]
    /\ pc' = [pc EXCEPT ![j] = "acquire"]
    /\ UNCHANGED <<txThread, tx_thread_id, tx_thread_entry_exit_notify, txSemaphore,
                   mutexVars, semGhost, clockVars, waitGhost, callGhost, result, fault>>

\* thread::join: exit_cond.acquire(), that is (void)get(infinity).
thread_join_acquire(j) ==
    /\ runs(j)
    /\ pc[j] = "acquire"
    /\ LET r == tx_semaphore_get(K, j, exit_cond(j), infinity) IN
          /\ Commit(r.k)
          /\ pc' = [pc EXCEPT ![j] = IF r.status = "suspended"
                                     THEN "acquire_wait" ELSE "joined"]
          /\ status_' = [status_ EXCEPT ![j] = IF r.status = "suspended"
                                               THEN "none" ELSE r.status]
    /\ calls' = [calls EXCEPT ![j] = @ + 1]
    /\ UNCHANGED <<threadVars, mutexVars, semGhost, clockVars, waitGhost, result, fault>>

\* The suspended joiner was resumed by tx_semaphore_put: acquire() and then
\* join() return.
thread_join_return(j) ==
    /\ runs(j)
    /\ pc[j] = "acquire_wait"
    /\ pc' = [pc EXCEPT ![j] = "joined"]
    /\ status_' = [status_ EXCEPT ![j] = tx_thread_suspend_status[j]]
    /\ UNCHANGED <<txThread, threadVars, txSemaphore, mutexVars, semGhost,
                   clockVars, waitGhost, calls, result, fault>>

\* The caller goes on after join(): exit_cond is out of scope.
thread_join_done(j) ==
    /\ runs(j)
    /\ pc[j] = "joined"
    /\ pc' = [pc EXCEPT ![j] = "idle"]
    /\ result' = [result EXCEPT ![j] = [op |-> "join", value |-> TRUE]]
    /\ UNCHANGED <<txThread, threadVars, txSemaphore, mutexVars, semGhost,
                   clockVars, waitGhost, callGhost, fault>>

\* tx_thread_terminate(this): the outcomes of the call.  A thread that is not
\* finished becomes TX_TERMINATED, its timer is stopped, and its
\* TX_THREAD_EXIT notification is made; for a finished thread the call
\* changes nothing.
tx_thread_terminate(k, t) ==
    IF k.state[t] \in {"TX_COMPLETED", "TX_TERMINATED"}
    THEN {[k |-> k, fault |-> "none"]}
    ELSE notify([k EXCEPT !.state[t] = "TX_TERMINATED",
                          !.timer[t] = 0,
                          !.delayed[t] = FALSE],
                t, "TX_THREAD_EXIT")

\* thread::~thread() of Target, run by j:
\* if (tx_thread_state != TX_COMPLETED) tx_thread_terminate(this), asserted.
thread_dtor_terminate(j) ==
    /\ runs(j)
    /\ j # Target
    /\ pc[j] = "idle"
    /\ tx_thread_id[Target]
    /\ \A o \in Threads : pc[o] # "tx_thread_delete"
    /\ IF tx_thread_state[Target] # "TX_COMPLETED"
       THEN /\ \E o \in tx_thread_terminate(K, Target) :
                  /\ Commit(o.k)
                  /\ fault' = o.fault
            /\ pc' = [pc EXCEPT ![j] = "tx_thread_delete", ![Target] = "exited"]
            /\ calls' = [calls EXCEPT ![j] = 1]
            /\ status_' = [status_ EXCEPT ![j] = "TX_SUCCESS"]
       ELSE /\ pc' = [pc EXCEPT ![j] = "tx_thread_delete"]
            /\ calls' = [calls EXCEPT ![j] = 0]
            /\ UNCHANGED <<txThread, txSemaphore, status_, fault>>
    /\ UNCHANGED <<threadVars, mutexVars, semGhost, clockVars, waitGhost, result>>

\* thread::~thread(): tx_thread_delete(this) of the finished thread.
thread_dtor_delete(j) ==
    /\ runs(j)
    /\ pc[j] = "tx_thread_delete"
    /\ tx_thread_id' = [tx_thread_id EXCEPT ![Target] = FALSE]
    /\ pc' = [pc EXCEPT ![j] = "idle"]
    /\ calls' = [calls EXCEPT ![j] = @ + 1]
    /\ status_' = [status_ EXCEPT ![j] = "TX_SUCCESS"]
    /\ result' = [result EXCEPT ![j] = [op |-> "~thread", value |-> TRUE]]
    /\ UNCHANGED <<txThread, tx_thread_entry_exit_notify, entry_exit_param_,
                   txSemaphore, mutexVars, semGhost, clockVars, waitGhost, fault>>

----------------------------------------------------------------------------
\* tick_timer.h

\* A value converted to native::ULONG (tick_timer::rep), an unsigned type.
ULONG(n) == n % 2^ULONG_BITS

\* The time points of tick_timer.
TimePoints == 0..(2^ULONG_BITS - 1)

\* tick_timer::now(): the current tick count (tx_time_get()) as a time_point.
now == tx_timer_system_clock

\* abs_time - Clock::now() for time points of tick_timer: a
\* tick_timer::duration, computed in the unsigned rep.
time_point_minus(abs_time, time) == ULONG(abs_time + 2^ULONG_BITS - time)

\* std::chrono::duration_cast<tick_timer::duration>(rel_time)
duration_cast(rel_time) == ULONG(rel_time)

\* to_ticks(duration): duration.count()
to_ticks(duration) == duration

\* The status a service returns to a thread whose timeout expired in 'state'.
timeout_status(state) ==
    CASE state = "TX_SEMAPHORE_SUSP" -> "TX_NO_INSTANCE"
      [] state = "TX_MUTEX_SUSP" -> "TX_NOT_AVAILABLE"
      [] OTHER -> "TX_SUCCESS"

\* The thread is suspended in a kernel service.
waits(t) == tx_thread_state[t] \in {"TX_SEMAPHORE_SUSP", "TX_MUTEX_SUSP", "TX_SLEEP"}

\* The threads whose timeout expires at the next tick.
expiring == {t \in Threads : tx_thread_timer[t] = 1}

\* The timer interrupt: the tick count advances (ULONG, it wraps), the active
\* thread timers count down, and a thread whose timer expires leaves what it
\* waited for and is resumed with the timeout status of its service.
timer_interrupt ==
    /\ fault = "none"
    /\ tx_timer_system_clock' = ULONG(tx_timer_system_clock + 1)
    /\ tx_thread_timer' =
          [t \in Threads |-> IF tx_thread_timer[t] > 0 THEN tx_thread_timer[t] - 1 ELSE 0]
    /\ tx_thread_state' =
          [t \in Threads |->
              IF t \in expiring
              THEN IF tx_thread_delayed_suspend[t] THEN "TX_SUSPENDED" ELSE "TX_READY"
              ELSE tx_thread_state[t]]
    /\ tx_thread_delayed_suspend' =
          [t \in Threads |-> IF t \in expiring THEN FALSE ELSE tx_thread_delayed_suspend[t]]
    /\ tx_thread_suspend_status' =
          [t \in Threads |-> IF t \in expiring THEN timeout_status(tx_thread_state[t])
                             ELSE tx_thread_suspend_status[t]]
    /\ tx_semaphore_suspension_list' =
          [s \in Sems |-> SelectSeq(tx_semaphore_suspension_list[s],
                                    LAMBDA w : w \notin expiring)]
    /\ tx_mutex_suspension_list' = tx_mutex_suspension_list \ expiring
    /\ elapsed' = [t \in Threads |->
                      IF waits(t) /\ elapsed[t] <= infinity
                      THEN elapsed[t] + 1 ELSE elapsed[t]]
    /\ UNCHANGED <<tx_thread_user_priority, threadVars, tx_semaphore_id,
                   tx_semaphore_count, max_, desired_, tx_mutex_owner,
                   tx_mutex_ownership_count, program, pc, update_, success_,
                   timeout_, callGhost, result, held, acquired, released, fault>>

----------------------------------------------------------------------------
\* mutex.cpp / mutex.h

\* The part of the kernel state that a mutex service reads and writes.
M == [state          |-> tx_thread_state,
      timer          |-> tx_thread_timer,
      suspend_status |-> tx_thread_suspend_status,
      delayed        |-> tx_thread_delayed_suspend,
      owner          |-> tx_mutex_owner,
      count          |-> tx_mutex_ownership_count,
      susp           |-> tx_mutex_suspension_list]

CommitM(m) ==
    /\ tx_thread_state' = m.state
    /\ tx_thread_timer' = m.timer
    /\ tx_thread_suspend_status' = m.suspend_status
    /\ tx_thread_delayed_suspend' = m.delayed
    /\ tx_mutex_owner' = m.owner
    /\ tx_mutex_ownership_count' = m.count
    /\ tx_mutex_suspension_list' = m.susp

\* tx_mutex_get(this, wait_option) called by thread t: a free mutex is taken,
\* the owner's count is incremented, any other caller fails at once
\* (TX_NO_WAIT) or suspends.
tx_mutex_get(m, t, wait_option) ==
    IF m.count = 0
    THEN [m |-> [m EXCEPT !.owner = t, !.count = 1], status |-> "TX_SUCCESS"]
    ELSE IF m.owner = t
    THEN [m |-> [m EXCEPT !.count = @ + 1], status |-> "TX_SUCCESS"]
    ELSE IF wait_option = TX_NO_WAIT
    THEN [m |-> m, status |-> "TX_NOT_AVAILABLE"]
    ELSE [m |-> [tx_thread_system_suspend(m, t, "TX_MUTEX_SUSP", wait_option)
                    EXCEPT !.susp = @ \cup {t}],
          status |-> "suspended"]

\* A faulty variant of tx_mutex_put: the ownership count is not honoured, the first
\* put by the owner releases the mutex.
tx_mutex_put_first(m, t) ==
    IF m.count = 0 \/ m.owner # t
    THEN {[m |-> m, status |-> "TX_NOT_OWNED"]}
    ELSE IF m.susp = {}
    THEN {[m |-> [m EXCEPT !.owner = NULL, !.count = 0], status |-> "TX_SUCCESS"]}
    ELSE {[m |-> [tx_thread_system_resume(m, w, "TX_SUCCESS")
                     EXCEPT !.owner = w, !.count = 1, !.susp = @ \ {w}],
           status |-> "TX_SUCCESS"] : w \in m.susp}

\* tx_mutex_put(this) called by thread t: the outcomes of the call.  Only the
\* owner may put.  When the count reaches zero the mutex is given to a
\* suspended thread (the one of highest priority, any of them here), which is
\* resumed as the owner, or the mutex becomes free.
tx_mutex_put(m, t) ==
    IF m.count = 0 \/ m.owner # t
    THEN {[m |-> m, status |-> "TX_NOT_OWNED"]}
    ELSE IF m.count > 1
    THEN {[m |-> [m EXCEPT !.count = @ - 1], status |-> "TX_SUCCESS"]}
    ELSE IF m.susp = {}
    THEN {[m |-> [m EXCEPT !.owner = NULL, !.count = 0], status |-> "TX_SUCCESS"]}
    ELSE {[m |-> [tx_thread_system_resume(m, w, "TX_SUCCESS")
                     EXCEPT !.owner = w, !.count = 1, !.susp = @ \ {w}],
           status |-> "TX_SUCCESS"] : w \in m.susp}

otherVarsM == <<threadVars, txSemaphore, semGhost, clockVars>>

\* The pc of a thread the kernel suspended in the call made by operation op.
waiting(op) == op \o "_wait"

\* The public operations of mutex that call get().
MutexGets == {"lock", "try_lock", "try_lock_for", "mutex::try_acquire_until"}

\* mutex::get(timeout) called by t on behalf of the public operation op:
\* result = tx_mutex_get(this, to_ticks(timeout)); return result == TX_SUCCESS.
\* lock() discards the value and returns; a caller the kernel suspended
\* returns in mutex_get_return.
mutex_get(t, timeout, op) ==
    /\ runs(t)
    /\ pc[t] = "idle"
    /\ tx_mutex_owner = t => tx_mutex_ownership_count < MaxRecursion
    /\ LET r == tx_mutex_get(M, t, to_ticks(timeout)) IN
          /\ CommitM(r.m)
          /\ IF r.status = "suspended"
             THEN /\ pc' = [pc EXCEPT ![t] = waiting(op)]
                  /\ timeout_' = [timeout_ EXCEPT ![t] = to_ticks(timeout)]
                  /\ elapsed' = [elapsed EXCEPT ![t] = 0]
                  /\ status_' = [status_ EXCEPT ![t] = "none"]
                  /\ UNCHANGED <<result, held>>
             ELSE /\ pc' = pc
                  /\ result' = [result EXCEPT
                        ![t] = [op |-> op, value |-> (r.status = "TX_SUCCESS")]]
                  /\ held' = [held EXCEPT
                        ![t] = IF op = "lock" \/ r.status = "TX_SUCCESS"
                               THEN @ + 1 ELSE @]
                  /\ status_' = [status_ EXCEPT ![t] = r.status]
                  /\ UNCHANGED waitGhost
    /\ calls' = [calls EXCEPT ![t] = 1]
    /\ UNCHANGED <<otherVarsM, fault>>

\* A faulty variant of mutex::lock: the timeout is zero instead of infinity.
mutex_lock_no_wait(t) == mutex_get(t, TX_NO_WAIT, "lock")

\* mutex::lock(): (void)get(infinity)
mutex_lock(t) == mutex_get(t, infinity, "lock")

\* A faulty variant of mutex::try_lock: the timeout is infinity instead of zero.
mutex_try_lock_forever(t) == mutex_get(t, infinity, "try_lock")

\* mutex::try_lock(): return get(tick_timer::duration(0))
mutex_try_lock(t) == mutex_get(t, TX_NO_WAIT, "try_lock")

\* mutex::try_lock_for(rel_time): return get(rel_time)
mutex_try_lock_for(t, rel_time) == mutex_get(t, rel_time, "try_lock_for")

\* mutex::try_acquire_until(abs_time): return get(abs_time - Clock::now())
mutex_try_acquire_until(t, abs_time) ==
    mutex_get(t, time_point_minus(abs_time, now), "mutex::try_acquire_until")

\* The thread the kernel suspended in tx_mutex_get is READY again: it was
\* given the mutex by tx_mutex_put (TX_SUCCESS) or its timeout expired
\* (TX_NOT_AVAILABLE).  get() returns result == TX_SUCCESS.
mutex_get_return(t) ==
    /\ runs(t)
    /\ \E op \in MutexGets :
          /\ pc[t] = waiting(op)
          /\ result' = [result EXCEPT
                ![t] = [op |-> op,
                        value |-> (tx_thread_suspend_status[t] = "TX_SUCCESS")]]
          /\ held' = [held EXCEPT
                ![t] = IF op = "lock" \/ tx_thread_suspend_status[t] = "TX_SUCCESS"
                       THEN @ + 1 ELSE @]
    /\ pc' = [pc EXCEPT ![t] = "idle"]
    /\ status_' = [status_ EXCEPT ![t] = tx_thread_suspend_status[t]]
    /\ timeout_' = [timeout_ EXCEPT ![t] = 0]
    /\ elapsed' = [elapsed EXCEPT ![t] = 0]
    /\ UNCHANGED <<txThread, tx_mutex_owner, tx_mutex_ownership_count,
                   tx_mutex_suspension_list, otherVarsM, calls, fault>>

\* mutex::unlock() with or without its assert.
mutex_put(t, asserted) ==
    /\ runs(t)
    /\ pc[t] = "idle"
    /\ \E r \in tx_mutex_put(M, t) :
          /\ CommitM(r.m)
          /\ status_' = [status_ EXCEPT ![t] = r.status]
          /\ IF r.status = "TX_SUCCESS"
             THEN /\ held' = [held EXCEPT ![t] = IF @ > 0 THEN @ - 1 ELSE @]
                  /\ result' = [result EXCEPT ![t] = [op |-> "unlock", value |-> TRUE]]
                  /\ fault' = fault
             ELSE /\ fault' = IF asserted THEN "assert" ELSE fault
                  /\ result' = IF asserted THEN result
                               ELSE [result EXCEPT ![t] = [op |-> "unlock", value |-> FALSE]]
                  /\ held' = held
    /\ calls' = [calls EXCEPT ![t] = 1]
    /\ UNCHANGED <<pc, otherVarsM, waitGhost>>

\* A faulty variant of mutex::unlock: the result of tx_mutex_put is not asserted.
mutex_unlock_unchecked(t) == mutex_put(t, FALSE)

\* mutex::unlock(): result = tx_mutex_put(this); assert(result == TX_SUCCESS)
mutex_unlock(t) == mutex_put(t, TRUE)

\* A faulty variant of get_locking_thread: it reads the suspension list, not the owner.
get_locking_thread_suspended ==
    IF tx_mutex_suspension_list = {} THEN NULL
    ELSE CHOOSE w \in tx_mutex_suspension_list : TRUE

\* mutex::get_locking_thread(): reinterpret_cast<thread*>(tx_mutex_owner)
get_locking_thread == tx_mutex_owner

----------------------------------------------------------------------------
\* semaphore.cpp / semaphore.h, called by threads on the semaphore sem

otherVarsS == <<threadVars, mutexVars, max_, desired_, clockVars>>

\* The public operations of semaphore that call get().
SemaphoreGets == {"acquire", "try_acquire", "try_acquire_for", "try_acquire_until"}

\* semaphore::get(timeout) called by t on behalf of the public operation op:
\* result = tx_semaphore_get(this, to_ticks(timeout)); return result == TX_SUCCESS.
\* acquire() discards the value and returns; a caller the kernel suspended
\* returns in semaphore_get_return.
semaphore_get(t, timeout, op) ==
    /\ runs(t)
    /\ pc[t] = "idle"
    /\ LET r == tx_semaphore_get(K, t, sem, to_ticks(timeout)) IN
          /\ Commit(r.k)
          /\ IF r.status = "suspended"
             THEN /\ pc' = [pc EXCEPT ![t] = waiting(op)]
                  /\ timeout_' = [timeout_ EXCEPT ![t] = to_ticks(timeout)]
                  /\ elapsed' = [elapsed EXCEPT ![t] = 0]
                  /\ status_' = [status_ EXCEPT ![t] = "none"]
                  /\ UNCHANGED <<result, acquired>>
             ELSE /\ pc' = pc
                  /\ result' = [result EXCEPT
                        ![t] = [op |-> op, value |-> (r.status = "TX_SUCCESS")]]
                  /\ acquired' = IF op = "acquire" \/ r.status = "TX_SUCCESS"
                                 THEN acquired + 1 ELSE acquired
                  /\ status_' = [status_ EXCEPT ![t] = r.status]
                  /\ UNCHANGED waitGhost
    /\ calls' = [calls EXCEPT ![t] = 1]
    /\ UNCHANGED <<otherVarsS, update_, success_, released, fault>>

\* A faulty variant of semaphore::acquire: the timeout is zero instead of infinity.
semaphore_acquire_no_wait(t) == semaphore_get(t, TX_NO_WAIT, "acquire")

\* semaphore::acquire(): (void)get(infinity)
semaphore_acquire(t) == semaphore_get(t, infinity, "acquire")

\* A faulty variant of semaphore::try_acquire: the timeout is infinity instead of zero.
semaphore_try_acquire_forever(t) == semaphore_get(t, infinity, "try_acquire")

\* semaphore::try_acquire(): return get(tick_timer::duration(0))
semaphore_try_acquire(t) == semaphore_get(t, TX_NO_WAIT, "try_acquire")

\* semaphore::try_acquire_for(rel_time):
\* return get(std::chrono::duration_cast<tick_timer::duration>(rel_time))
semaphore_try_acquire_for(t, rel_time) ==
    semaphore_get(t, duration_cast(rel_time), "try_acquire_for")

\* semaphore::try_acquire_until(abs_time): return try_acquire_for(abs_time - Clock::now())
semaphore_try_acquire_until(t, abs_time) ==
    semaphore_get(t, duration_cast(time_point_minus(abs_time, now)), "try_acquire_until")

\* The thread the kernel suspended in tx_semaphore_get is READY again: it was
\* given an instance by tx_semaphore_put (TX_SUCCESS) or its timeout expired
\* (TX_NO_INSTANCE).  get() returns result == TX_SUCCESS.
semaphore_get_return(t) ==
    /\ runs(t)
    /\ \E op \in SemaphoreGets :
          /\ pc[t] = waiting(op)
          /\ result' = [result EXCEPT
                ![t] = [op |-> op,
                        value |-> (tx_thread_suspend_status[t] = "TX_SUCCESS")]]
          /\ acquired' = IF op = "acquire" \/ tx_thread_suspend_status[t] = "TX_SUCCESS"
                         THEN acquired + 1 ELSE acquired
    /\ pc' = [pc EXCEPT ![t] = "idle"]
    /\ status_' = [status_ EXCEPT ![t] = tx_thread_suspend_status[t]]
    /\ timeout_' = [timeout_ EXCEPT ![t] = 0]
    /\ elapsed' = [elapsed EXCEPT ![t] = 0]
    /\ UNCHANGED <<txThread, txSemaphore, otherVarsS, update_, success_, released,
                   calls, fault>>

\* The units that release() calls in progress have still to give.
RECURSIVE Outstanding(_)
Outstanding(S) ==
    IF S = {} THEN 0
    ELSE LET t == CHOOSE x \in S : TRUE IN
         (IF pc[t] = "put" THEN update_[t] ELSE 0) + Outstanding(S \ {t})

\* semaphore::release(update): (void)put(update), entering put with
\* success = true and the parameter update.
semaphore_release_call(t, update) ==
    /\ runs(t)
    /\ pc[t] = "idle"
    /\ released + Outstanding(Threads) + update <= MaxReleased
    /\ pc' = [pc EXCEPT ![t] = "put"]
    /\ update_' = [update_ EXCEPT ![t] = update]
    /\ success_' = [success_ EXCEPT ![t] = TRUE]
    /\ calls' = [calls EXCEPT ![t] = 0]
    /\ status_' = [status_ EXCEPT ![t] = "none"]
    /\ UNCHANGED <<txThread, txSemaphore, otherVarsS, waitGhost, result,
                   acquired, released, fault>>

\* semaphore::put in a thread, one evaluation of the loop condition: either
\* one pass of the body,
\* success = TX_SUCCESS == tx_semaphore_put(this); update--;
\* or the return of success, which release() discards.
semaphore_put_loop(t) ==
    /\ runs(t)
    /\ pc[t] = "put"
    /\ IF put_while(success_[t], update_[t])
       THEN /\ LET r == tx_semaphore_put(K, sem) IN
                  /\ Commit(r.k)
                  /\ success_' = [success_ EXCEPT ![t] = (r.status = "TX_SUCCESS")]
                  /\ status_' = [status_ EXCEPT ![t] = r.status]
                  /\ released' = IF r.status = "TX_SUCCESS"
                                 THEN released + 1 ELSE released
            /\ update_' = [update_ EXCEPT ![t] = @ - 1]
            /\ calls' = [calls EXCEPT ![t] = @ + 1]
            /\ UNCHANGED <<pc, result>>
       ELSE /\ pc' = [pc EXCEPT ![t] = "idle"]
            /\ result' = [result EXCEPT ![t] = [op |-> "release", value |-> success_[t]]]
            /\ UNCHANGED <<txThread, txSemaphore, update_, success_, released,
                           callGhost>>
    /\ UNCHANGED <<otherVarsS, waitGhost, acquired, fault>>

\* semaphore::get_count(): return tx_semaphore_count
get_count == tx_semaphore_count[sem]

\* counting_semaphore<MAX_VALUE>::max() / binary_semaphore::max()
max == max_

----------------------------------------------------------------------------
\* thread.cpp / thread.h: this_thread::sleep_for, sleep_until and the
\* operations on the thread object Target called by thread j

otherVarsT == <<threadVars, mutexVars, semGhost, tx_timer_system_clock, program>>

\* tx_thread_sleep(timer_ticks) called by thread t: zero ticks return at
\* once, otherwise the thread sleeps until its timer expires.
tx_thread_sleep(k, t, timer_ticks) ==
    IF timer_ticks = 0
    THEN [k |-> k, status |-> "TX_SUCCESS"]
    ELSE [k |-> tx_thread_system_suspend(k, t, "TX_SLEEP", timer_ticks),
          status |-> "suspended"]

\* The public operations that sleep.
Sleeps == {"sleep_for", "sleep_until"}

\* this_thread::sleep_for(rel_time) called by t on behalf of op:
\* result = tx_thread_sleep(to_ticks(rel_time)); assert(result == TX_SUCCESS)
this_thread_sleep(t, rel_time, op) ==
    /\ runs(t)
    /\ pc[t] = "idle"
    /\ LET r == tx_thread_sleep(K, t, to_ticks(rel_time)) IN
          /\ Commit(r.k)
          /\ IF r.status = "suspended"
             THEN /\ pc' = [pc EXCEPT ![t] = waiting(op)]
                  /\ timeout_' = [timeout_ EXCEPT ![t] = to_ticks(rel_time)]
                  /\ elapsed' = [elapsed EXCEPT ![t] = 0]
                  /\ status_' = [status_ EXCEPT ![t] = "none"]
                  /\ UNCHANGED result
             ELSE /\ pc' = pc
                  /\ result' = [result EXCEPT ![t] = [op |-> op, value |-> TRUE]]
                  /\ status_' = [status_ EXCEPT ![t] = r.status]
                  /\ UNCHANGED waitGhost
    /\ calls' = [calls EXCEPT ![t] = 1]
    /\ UNCHANGED <<otherVarsT, tx_thread_user_priority, fault>>

\* this_thread::sleep_for(rel_time), the template:
\* ticks_sleep_for(std::chrono::duration_cast<tick_timer::duration>(rel_time))
sleep_for(t, rel_time) == this_thread_sleep(t, duration_cast(rel_time), "sleep_for")

\* this_thread::sleep_until(abs_time): sleep_for(abs_time - Clock::now())
sleep_until(t, abs_time) ==
    this_thread_sleep(t, duration_cast(time_point_minus(abs_time, now)), "sleep_until")

\* The timer of the sleeping thread expired: tx_thread_sleep returns its
\* status, which sleep_for asserts.
sleep_return(t) ==
    /\ runs(t)
    /\ \E op \in Sleeps :
          /\ pc[t] = waiting(op)
          /\ result' = [result EXCEPT ![t] = [op |-> op, value |-> TRUE]]
    /\ pc' = [pc EXCEPT ![t] = "idle"]
    /\ status_' = [status_ EXCEPT ![t] = tx_thread_suspend_status[t]]
    /\ fault' = IF tx_thread_suspend_status[t] = "TX_SUCCESS" THEN fault ELSE "assert"
    /\ timeout_' = [timeout_ EXCEPT ![t] = 0]
    /\ elapsed' = [elapsed EXCEPT ![t] = 0]
    /\ UNCHANGED <<txThread, txSemaphore, otherVarsT, tx_thread_user_priority, calls>>

\* tx_thread_suspend(this): a READY thread is suspended; a thread that waits
\* in a service is suspended when the service lets it go; a finished thread
\* cannot be suspended.
tx_thread_suspend(k, t) ==
    IF k.state[t] = "TX_READY"
    THEN [k |-> [k EXCEPT !.state[t] = "TX_SUSPENDED"], status |-> "TX_SUCCESS"]
    ELSE IF k.state[t] \in {"TX_COMPLETED", "TX_TERMINATED"}
    THEN [k |-> k, status |-> "TX_SUSPEND_ERROR"]
    ELSE IF k.state[t] = "TX_SUSPENDED"
    THEN [k |-> k, status |-> "TX_SUCCESS"]
    ELSE [k |-> [k EXCEPT !.delayed[t] = TRUE], status |-> "TX_SUCCESS"]

\* tx_thread_resume(this): a suspended thread is READY again, a pending
\* suspension is lifted, anything else is an error.
tx_thread_resume(k, t) ==
    IF k.state[t] = "TX_SUSPENDED"
    THEN [k |-> [k EXCEPT !.state[t] = "TX_READY"], status |-> "TX_SUCCESS"]
    ELSE IF k.delayed[t]
    THEN [k |-> [k EXCEPT !.delayed[t] = FALSE], status |-> "TX_SUSPEND_LIFTED"]
    ELSE [k |-> k, status |-> "TX_RESUME_ERROR"]

\* A kernel service on the thread object Target called by j for the public
\* operation op, which makes the one call r and returns nothing.
thread_service(j, op, r) ==
    /\ runs(j)
    /\ pc[j] = "idle"
    /\ tx_thread_id[Target]
    /\ Commit(r.k)
    /\ calls' = [calls EXCEPT ![j] = 1]
    /\ status_' = [status_ EXCEPT ![j] = r.status]
    /\ result' = [result EXCEPT ![j] = [op |-> op, value |-> TRUE]]
    /\ UNCHANGED <<otherVarsT, waitGhost, pc, fault>>

\* thread::suspend(): tx_thread_suspend(this)
thread_suspend(j) ==
    /\ thread_service(j, "suspend", tx_thread_suspend(K, Target))
    /\ UNCHANGED tx_thread_user_priority

\* thread::resume(): tx_thread_resume(this)
thread_resume(j) ==
    /\ thread_service(j, "resume", tx_thread_resume(K, Target))
    /\ UNCHANGED tx_thread_user_priority

\* thread::get_priority(): return tx_thread_user_priority
get_priority(t) == tx_thread_user_priority[t]

\* The priorities passed to set_priority.
Priorities == 1..MaxPriority

\* thread::set_priority(prio): tx_thread_priority_change(this, prio, &old_prio)
thread_set_priority(j, prio) ==
    /\ thread_service(j, "set_priority", [k |-> K, status |-> "TX_SUCCESS"])
    /\ tx_thread_user_priority' = [tx_thread_user_priority EXCEPT ![Target] = prio]

----------------------------------------------------------------------------
\* The join specification: Target is created (TX_AUTO_START) and has not
\* run yet; the other threads are executing.

InitCommon ==
    /\ tx_thread_id = [t \in Threads |-> TRUE]
    /\ tx_thread_entry_exit_notify = [t \in Threads |-> NULL]
    /\ entry_exit_param_ = [t \in Threads |-> NULL]
    /\ tx_thread_state = [t \in Threads |-> "TX_READY"]
    /\ tx_thread_timer = [t \in Threads |-> 0]
    /\ tx_thread_suspend_status = [t \in Threads |-> "TX_SUCCESS"]
    /\ tx_thread_delayed_suspend = [t \in Threads |-> FALSE]
    /\ tx_thread_user_priority = [t \in Threads |-> 1]
    /\ tx_semaphore_suspension_list = [s \in Sems |-> <<>>]
    /\ tx_mutex_owner = NULL
    /\ tx_mutex_ownership_count = 0
    /\ tx_mutex_suspension_list = {}
    /\ tx_timer_system_clock = 0
    /\ update_ = [t \in Threads |-> 0]
    /\ success_ = [t \in Threads |-> TRUE]
    /\ timeout_ = [t \in Threads |-> 0]
    /\ elapsed = [t \in Threads |-> 0]
    /\ calls = [t \in Threads |-> 0]
    /\ status_ = [t \in Threads |-> "none"]
    /\ result = [t \in Threads |-> [op |-> "none", value |-> FALSE]]
    /\ held = [t \in Threads |-> 0]
    /\ acquired = 0
    /\ released = 0
    /\ fault = "none"

\* No semaphore is constructed yet.
InitJoin ==
    /\ InitCommon
    /\ pc = [t \in Threads |-> IF t = Target THEN "created" ELSE "idle"]
    /\ tx_semaphore_id = [s \in Sems |-> FALSE]
    /\ tx_semaphore_count = [s \in Sems |-> 0]
    /\ max_ = 1
    /\ desired_ = 0

Init ==
    /\ InitJoin
    /\ program = "join"

Step(t) ==
    \/ thread_entry(t)
    \/ thread_exit(t)
    \/ thread_join(t)
    \/ set_entry_exit_callback_notify(t)
    \/ set_entry_exit_callback_param(t)
    \/ thread_join_acquire(t)
    \/ thread_join_return(t)
    \/ thread_join_done(t)

Next ==
    \/ \E t \in Threads : Step(t)
    \/ \E t \in Threads : thread_dtor_terminate(t)
    \/ \E t \in Threads : thread_dtor_delete(t)

Spec == Init /\ [][Next]_vars

\* The steps of an operation in progress and the start of a created thread:
\* what a thread does when the scheduler runs it.  Calling join() or
\* ~thread() and returning from the entry function are the program's choice.
Run(t) ==
    \/ thread_entry(t)
    \/ set_entry_exit_callback_notify(t)
    \/ set_entry_exit_callback_param(t)
    \/ thread_join_acquire(t)
    \/ thread_join_return(t)
    \/ thread_join_done(t)
    \/ thread_dtor_delete(t)

\* Every READY thread is eventually run by the scheduler.
FairSpec == Spec /\ \A t \in Threads : WF_vars(Run(t))

----------------------------------------------------------------------------
\* The mutex specification: the threads, all executing, call lock(),
\* try_lock() and unlock() on one mutex in any order.

InitMutex ==
    /\ InitCommon
    /\ program = "mutex"
    /\ pc = [t \in Threads |-> "idle"]
    /\ tx_semaphore_id = [s \in Sems |-> FALSE]
    /\ tx_semaphore_count = [s \in Sems |-> 0]
    /\ max_ = 1
    /\ desired_ = 0

NextMutex ==
    \/ \E t \in Threads : mutex_lock(t)
    \/ \E t \in Threads : mutex_try_lock(t)
    \/ \E t \in Threads : mutex_unlock(t)
    \/ \E t \in Threads : mutex_get_return(t)

MutexSpec == InitMutex /\ [][NextMutex]_vars

----------------------------------------------------------------------------
\* The semaphore specification: sem is a binary_semaphore (max() = 1) or a
\* counting_semaphore<MAX_VALUE>, constructed with desired <= max(); the
\* threads, all executing, call acquire(), try_acquire() and release(update).

\* The kernel before any semaphore is constructed.
NoSemaphore ==
    [state          |-> [t \in Threads |-> "TX_READY"],
     timer          |-> [t \in Threads |-> 0],
     suspend_status |-> [t \in Threads |-> "TX_SUCCESS"],
     delayed        |-> [t \in Threads |-> FALSE],
     id             |-> [s \in Sems |-> FALSE],
     count          |-> [s \in Sems |-> 0],
     susp           |-> [s \in Sems |-> <<>>]]

\* sem constructed as a semaphore of maximum 'maxs' with some desired count.
InitSemaphore(maxs) ==
    /\ InitCommon
    /\ pc = [t \in Threads |-> "idle"]
    /\ max_ \in maxs
    /\ desired_ \in 0..max_
    /\ tx_semaphore_id = semaphore(NoSemaphore, sem, max_, desired_).id
    /\ tx_semaphore_count = semaphore(NoSemaphore, sem, max_, desired_).count

InitSem ==
    /\ InitSemaphore({1, MAX_VALUE})
    /\ program = "semaphore"

NextSem ==
    \/ \E t \in Threads : semaphore_acquire(t)
    \/ \E t \in Threads : semaphore_try_acquire(t)
    \/ \E t \in Threads : semaphore_get_return(t)
    \/ \E t \in Threads, update \in 0..MaxUpdate : semaphore_release_call(t, update)
    \/ \E t \in Threads : semaphore_put_loop(t)

SemSpec == InitSem /\ [][NextSem]_vars

----------------------------------------------------------------------------
\* The timed specification: the application uses the timed operations of one
\* class, the mutex, a binary semaphore, or this_thread's sleep functions,
\* while the timer interrupt counts the ticks.

\* The tick durations: every value of tick_timer::rep.
Durations == 0..infinity

InitTimed ==
    /\ InitSemaphore({1})
    /\ program \in {"timed mutex", "timed semaphore", "sleep"}

\* The threads of a timed program: 'Waiter' makes the timed calls, 'Holder'
\* takes and gives the resource without waiting.
Waiter == "J1"
Holder == "J2"

NextTimedMutex ==
    \/ \E rel_time \in Durations : mutex_try_lock_for(Waiter, rel_time)
    \/ \E abs_time \in TimePoints : mutex_try_acquire_until(Waiter, abs_time)
    \/ mutex_get_return(Waiter)
    \/ mutex_try_lock(Holder)
    \/ \E t \in {Waiter, Holder} : mutex_unlock(t)

NextTimedSem ==
    \/ \E rel_time \in Durations : semaphore_try_acquire_for(Waiter, rel_time)
    \/ \E abs_time \in TimePoints : semaphore_try_acquire_until(Waiter, abs_time)
    \/ semaphore_get_return(Waiter)
    \/ semaphore_try_acquire(Holder)
    \/ semaphore_release_call(Holder, 1)
    \/ semaphore_put_loop(Holder)

NextSleep ==
    \/ \E rel_time \in Durations : sleep_for(Waiter, rel_time)
    \/ \E abs_time \in TimePoints : sleep_until(Waiter, abs_time)
    \/ sleep_return(Waiter)

NextTimed ==
    \/ program = "timed mutex" /\ NextTimedMutex
    \/ program = "timed semaphore" /\ NextTimedSem
    \/ program = "sleep" /\ NextSleep
    \/ timer_interrupt

TimedSpec == InitTimed /\ [][NextTimed]_vars

----------------------------------------------------------------------------
\* The thread specification: Target is created and started; it sleeps and
\* returns from its entry function, while Controller suspends it, resumes
\* it, changes its priority and destroys it, and the timer interrupt counts
\* the ticks.

Controller == "J1"

InitThread ==
    /\ InitJoin
    /\ program = "thread"

NextThread ==
    \/ thread_entry(Target)
    \/ thread_exit(Target)
    \/ \E rel_time \in Durations : sleep_for(Target, rel_time)
    \/ sleep_return(Target)
    \/ thread_suspend(Controller)
    \/ thread_resume(Controller)
    \/ \E prio \in Priorities : thread_set_priority(Controller, prio)
    \/ thread_dtor_terminate(Controller)
    \/ thread_dtor_delete(Controller)
    \/ timer_interrupt

ThreadSpec == InitThread /\ [][NextThread]_vars

----------------------------------------------------------------------------
\* The specification of the whole interface: the application is one of the
\* programs above.

InitApi == Init \/ InitMutex \/ InitSem \/ InitTimed \/ InitThread

NextApi ==
    \/ program = "join" /\ Next
    \/ program = "mutex" /\ NextMutex
    \/ program = "semaphore" /\ NextSem
    \/ program \in {"timed mutex", "timed semaphore", "sleep"} /\ NextTimed
    \/ program = "thread" /\ NextThread

ApiSpec == InitApi /\ [][NextApi]_vars

----------------------------------------------------------------------------
\* Claims about thread::join

inJoin(j) == pc[j] \in {"set_entry_exit_callback", "entry_exit_param_",
                        "acquire", "acquire_wait"}

\* C1: when join() on the joinable Target returns to a thread j # Target,
\* Target has finished execution: its state is completed or terminated.
JoinReturnsAfterExit ==
    \A j \in Threads :
        pc[j] = "joined" =>
            /\ j # Target
            /\ get_state(j, Target) \in {"completed", "terminated"}

\* A join() that suspended on exit_cond has returned, Target being finished.
JoinReturnedWitness ==
    \E j \in Threads :
        /\ pc[j] = "joined"
        /\ finished(Target)
        /\ entry_exit_param_[Target] = exit_cond(j)

\* C2: a join() that passed its joinable check eventually returns once
\* Target has finished, whatever the interleaving of Target's exit with the
\* steps of join().  Stated for the runs in which nothing stops the system
\* and the thread object is not destroyed under the joiner.
JoinEventuallyReturns ==
    \A j \in Threads :
        [](inJoin(j) /\ finished(Target) =>
              <>(pc[j] = "joined" \/ fault # "none" \/ ~tx_thread_id[Target]))

----------------------------------------------------------------------------
\* Claims about mutex (checked under MutexSpec)

\* The kernel gave the mutex to the suspended thread t, whose lock() has not
\* returned yet.
granted(t) == pc[t] \in {"lock_wait", "try_lock_wait"} /\ tx_thread_state[t] = "TX_READY"

\* C4: a thread to which lock() or a successful try_lock() has returned, and
\* which has not unlocked as often, is the owner of the mutex, and no two
\* different threads hold the mutex at once.
MutualExclusion ==
    /\ \A t \in Threads : held[t] > 0 => tx_mutex_owner = t
    /\ \A a, b \in Threads : held[a] > 0 /\ held[b] > 0 => a = b

\* One thread holds the mutex while another is suspended in lock().
MutexContendedWitness ==
    \E a, b \in Threads :
        /\ a # b
        /\ held[a] > 0
        /\ result[a].op = "lock"
        /\ pc[b] = "lock_wait"
        /\ tx_thread_state[b] = "TX_MUTEX_SUSP"

\* C5: the mutex is recursive.  lock() and try_lock() by the holder return
\* at once with success and leave it the owner, and the mutex passes to
\* another thread (or becomes free) only in the step in which the holder
\* makes the unlock() that matches its first acquisition.
RecursiveMutex ==
    [][\A t \in Threads :
          /\ (held[t] > 0 /\ (mutex_lock(t) \/ mutex_try_lock(t))) =>
                /\ pc'[t] = "idle"
                /\ tx_thread_state'[t] = "TX_READY"
                /\ result'[t].value
                /\ held'[t] = held[t] + 1
                /\ tx_mutex_owner' = t
                /\ tx_mutex_ownership_count' = tx_mutex_ownership_count + 1
          /\ (held[t] > 0 /\ tx_mutex_owner' # t) =>
                /\ held[t] = 1
                /\ held'[t] = 0
                /\ mutex_unlock(t)]_vars

\* The holder has acquired the mutex twice and another thread waits for it.
RecursiveHeldWitness ==
    \E t, w \in Threads :
        /\ held[t] = 2
        /\ tx_mutex_ownership_count = 2
        /\ result[t].op = "try_lock"
        /\ pc[w] = "lock_wait"

\* C6 as stated: try_lock() does not block, returns false whenever the mutex
\* is already locked, leaving owner and count unchanged, and returns true
\* having locked the mutex otherwise.
TryLockFalseWhenLocked ==
    [][\A t \in Threads : mutex_try_lock(t) =>
          /\ pc'[t] = "idle"
          /\ tx_thread_state'[t] = "TX_READY"
          /\ result'[t].op = "try_lock"
          /\ IF tx_mutex_owner # NULL
             THEN /\ result'[t].value = FALSE
                  /\ tx_mutex_owner' = tx_mutex_owner
                  /\ tx_mutex_ownership_count' = tx_mutex_ownership_count
             ELSE /\ result'[t].value = TRUE
                  /\ tx_mutex_owner' = t
                  /\ tx_mutex_ownership_count' = 1]_vars

\* C6 amended: try_lock() does not block; it returns false if the mutex is
\* locked by another thread, leaving owner and count unchanged, and returns
\* true having locked the mutex for the caller otherwise (the mutex free, or
\* locked by the caller itself: the count goes up by one).
TryLockFalseWhenLockedByOther ==
    [][\A t \in Threads : mutex_try_lock(t) =>
          /\ pc'[t] = "idle"
          /\ tx_thread_state'[t] = "TX_READY"
          /\ result'[t].op = "try_lock"
          /\ IF tx_mutex_owner \notin {NULL, t}
             THEN /\ result'[t].value = FALSE
                  /\ tx_mutex_owner' = tx_mutex_owner
                  /\ tx_mutex_ownership_count' = tx_mutex_ownership_count
                  /\ held' = held
             ELSE /\ result'[t].value = TRUE
                  /\ tx_mutex_owner' = t
                  /\ tx_mutex_ownership_count' = tx_mutex_ownership_count + 1
                  /\ held'[t] = held[t] + 1]_vars

\* try_lock() returned false to one thread, the mutex being held by another,
\* and true to the holder.
TryLockWitness ==
    \E t, o \in Threads :
        /\ t # o
        /\ result[t] = [op |-> "try_lock", value |-> FALSE]
        /\ result[o] = [op |-> "try_lock", value |-> TRUE]
        /\ tx_mutex_owner = o
        /\ held[o] > 0

\* C7: get_locking_thread() is the thread holding the mutex, and is nullptr
\* exactly when the mutex is unlocked: no thread holds it and none was given
\* it by the last unlock().
LockingThread ==
    /\ \A t \in Threads : held[t] > 0 => get_locking_thread = t
    /\ get_locking_thread = NULL <=>
          \A t \in Threads : held[t] = 0 /\ ~granted(t)

\* The last unlock() by the holder left the mutex unlocked.
UnlockedAgainWitness ==
    \E t \in Threads :
        /\ result[t].op = "unlock"
        /\ held[t] = 0
        /\ get_locking_thread = NULL

\* C8: unlock() by a thread that does not hold the mutex fails its assertion
\* and leaves owner and count as they were; unlock() by the holder passes the
\* assertion.
UnlockAsserts ==
    [][\A t \in Threads : mutex_unlock(t) =>
          IF held[t] = 0
          THEN /\ fault' = "assert"
               /\ tx_mutex_owner' = tx_mutex_owner
               /\ tx_mutex_ownership_count' = tx_mutex_ownership_count
               /\ tx_mutex_suspension_list' = tx_mutex_suspension_list
          ELSE /\ fault' = "none"
               /\ held'[t] = held[t] - 1]_vars

\* unlock() by a thread that is not the holder stopped the system, the
\* mutex still held by its owner.
UnlockAssertWitness ==
    \E o \in Threads :
        /\ fault = "assert"
        /\ held[o] > 0
        /\ tx_mutex_owner = o

----------------------------------------------------------------------------
\* Claims about semaphore (checked under SemSpec)

\* C3: get_count() never exceeds max().
CountWithinMax == get_count <= max

\* C9: try_acquire() does not block; it returns true exactly when the count
\* was greater than zero at the call, and then the count is one less; when
\* it returns false the count is unchanged, zero.
TryAcquireTakesOne ==
    [][\A t \in Threads : semaphore_try_acquire(t) =>
          /\ pc'[t] = "idle"
          /\ tx_thread_state'[t] = "TX_READY"
          /\ result'[t].op = "try_acquire"
          /\ result'[t].value = (get_count > 0)
          /\ IF get_count > 0
             THEN get_count' = get_count - 1
             ELSE get_count' = 0
          /\ tx_semaphore_suspension_list' = tx_semaphore_suspension_list]_vars

\* try_acquire() has returned true to one thread and false to another.
TryAcquireWitness ==
    \E t, u \in Threads :
        /\ result[t] = [op |-> "try_acquire", value |-> TRUE]
        /\ result[u] = [op |-> "try_acquire", value |-> FALSE]
        /\ get_count = 0

\* The units tx_semaphore_put gave to suspended threads whose acquire() has
\* not returned yet.
handed == Cardinality({t \in Threads :
              pc[t] = "acquire_wait" /\ tx_thread_state[t] = "TX_READY"})

\* C10 as stated: in every state, completed acquire() calls plus successful
\* try_acquire() calls plus get_count() equal the initial value plus the
\* units released so far.
Conservation == acquired + get_count = desired_ + released

\* C10 amended: the units that a release handed to a suspended acquire()
\* which has not returned yet are counted too.
ConservationWithHanded == acquired + handed + get_count = desired_ + released

\* Units were acquired, one is handed to a resumed waiter, another is in the count.
ConservationWitness ==
    /\ acquired > 0
    /\ handed > 0
    /\ released > 1
    /\ \E t \in Threads : result[t].op = "acquire"

\* The threads suspended on sem, first come first.
blocked == tx_semaphore_suspension_list[sem]

\* C11: release(update) makes the semaphore available update times.  From
\* any state the semaphore is in, the call (run without another thread
\* operating on the semaphore meanwhile) unblocks the first min(k, update)
\* of the k blocked threads, leaves the others blocked and adds the rest of
\* update to the count: with no thread blocked get_count() grows by update,
\* and release(0) changes nothing.
ReleaseMakesAvailable ==
    \A update \in 0..MaxUpdate :
        LET after == semaphore_release(K, sem, update)
            k == Len(blocked)
            unblocked == IF k < update THEN k ELSE update
        IN  /\ after.count[sem] = get_count + (update - unblocked)
            /\ after.susp[sem] = SubSeq(blocked, unblocked + 1, k)
            /\ \A i \in 1..k :
                  after.state[blocked[i]] =
                     IF i <= unblocked THEN "TX_READY" ELSE "TX_SEMAPHORE_SUSP"
            /\ k = 0 => after.count[sem] = get_count + update
            /\ update = 0 => after = K

\* A release(update) with update > 1 has returned; a thread it unblocked
\* has not returned from acquire() yet, and a thread is blocked on sem.
ReleaseWitness ==
    \E t \in Threads :
        /\ result[t].op = "release"
        /\ calls[t] > 1
        /\ handed > 0
        /\ Len(blocked) > 0

----------------------------------------------------------------------------
\* Timed waits

\* The public operations that wait for a duration.
TimedGets == {"try_lock_for", "try_acquire_for"}

\* Thread t is in a try_lock_for or try_acquire_for that the kernel suspended.
inTimedGet(t) == \E op \in TimedGets : pc[t] = waiting(op)

\* C12, as stated: the caller of try_lock_for(d) or try_acquire_for(d) is
\* never blocked for more than d ticks, for every representable d.
TimedWaitsBounded ==
    \A t \in Threads : inTimedGet(t) => elapsed[t] <= timeout_[t]

\* The timed wait of t, in a state: a wait of d ticks, d other than
\* infinity, has lasted at most d ticks, its timer holds the ticks that
\* are left while the thread is suspended, and it ended without the
\* resource only after d ticks; a wait of infinity ticks has no timer and
\* ends only with the resource; no wait is of zero ticks.
TimedWait(t) ==
    /\ timeout_[t] > 0
    /\ IF timeout_[t] = infinity
       THEN /\ tx_thread_timer[t] = 0
            /\ ~waits(t) => tx_thread_suspend_status[t] = "TX_SUCCESS"
       ELSE /\ elapsed[t] <= timeout_[t]
            /\ waits(t) => /\ elapsed[t] < timeout_[t]
                           /\ tx_thread_timer[t] = timeout_[t] - elapsed[t]
            /\ ~waits(t) /\ tx_thread_suspend_status[t] # "TX_SUCCESS"
                  => elapsed[t] = timeout_[t]

\* The return of t from a timed wait: true if and only if the kernel gave it
\* the resource, false only once the d ticks have elapsed.
TimedReturn(t) ==
    inTimedGet(t) /\ pc'[t] = "idle" =>
        /\ ~waits(t)
        /\ result'[t].value = (tx_thread_suspend_status[t] = "TX_SUCCESS")
        /\ ~result'[t].value => elapsed[t] = timeout_[t] /\ timeout_[t] # infinity

\* C12, amended: try_lock_for(d) and try_acquire_for(d) return true if the
\* resource becomes available within d ticks and false once d ticks have
\* elapsed, and the caller is never blocked for more than d ticks, for
\* every tick duration d other than infinity; with d = infinity
\* (TX_WAIT_FOREVER) the call waits without a timeout and returns only true.
TimedWaitsBoundedUnlessInfinity ==
    /\ [](\A t \in Threads : inTimedGet(t) => TimedWait(t))
    /\ [][\A t \in Threads : TimedReturn(t)]_vars

\* A try_acquire_for of more than one tick has timed out: its caller is
\* READY again after exactly that many ticks and is about to return false.
TimedOutWitness ==
    \E t \in Threads :
        /\ pc[t] = waiting("try_acquire_for")
        /\ tx_thread_state[t] = "TX_READY"
        /\ tx_thread_suspend_status[t] = "TX_NO_INSTANCE"
        /\ timeout_[t] > 1
        /\ elapsed[t] = timeout_[t]

\* Thread t calls a deadline operation with the time point abs_time.
until(t, abs_time) ==
    \/ mutex_try_acquire_until(t, abs_time)
    \/ semaphore_try_acquire_until(t, abs_time)
    \/ sleep_until(t, abs_time)

\* C13: a deadline operation (semaphore::try_acquire_until,
\* mutex::try_acquire_until, this_thread::sleep_until) called with
\* abs_time <= tick_timer::now() does not block: the call returns at once.
PassedDeadlineDoesNotBlock ==
    [][\A t \in Threads, abs_time \in TimePoints :
          abs_time <= now /\ until(t, abs_time) =>
              /\ pc'[t] = "idle"
              /\ tx_thread_state'[t] = "TX_READY"]_vars

----------------------------------------------------------------------------
\* Claims about the thread object

\* The values of get_current(): a thread, or null before the scheduler runs.
Currents == Threads \cup {NULL}

\* C14: get_state() only re-labels the kernel state: completed iff
\* TX_COMPLETED, terminated iff TX_TERMINATED, running iff TX_READY and the
\* thread is the current one, ready iff TX_READY and not current, suspended
\* for every other kernel state (sleeping, blocked on a mutex or a
\* semaphore, suspended); at most one thread reports running.
StateRelabelled ==
    \A cur \in Currents :
        /\ \A t \in Threads :
              LET s == get_state(cur, t)
                  k == tx_thread_state[t]
              IN  /\ s = "completed" <=> k = "TX_COMPLETED"
                  /\ s = "terminated" <=> k = "TX_TERMINATED"
                  /\ s = "running" <=> k = "TX_READY" /\ cur = t
                  /\ s = "ready" <=> k = "TX_READY" /\ cur # t
                  /\ s = "suspended" <=>
                        k \in {"TX_SLEEP", "TX_MUTEX_SUSP", "TX_SEMAPHORE_SUSP",
                               "TX_SUSPENDED"}
        /\ Cardinality({t \in Threads : get_state(cur, t) = "running"}) <= 1

\* The current thread reports running, another READY thread reports ready,
\* and the sleeping Target, on which suspend() was called, reports suspended.
StateWitness ==
    \E cur \in Threads, t \in Threads :
        /\ get_state(cur, cur) = "running"
        /\ get_state(cur, t) = "ready"
        /\ tx_thread_state[Target] = "TX_SLEEP"
        /\ tx_thread_delayed_suspend[Target]
        /\ get_state(cur, Target) = "suspended"

----------------------------------------------------------------------------
\* Claims about the kernel calls of the operations

\* The last operation that thread t called and that has returned is op:
\* calls[t] is the number of kernel calls it made.
returned(t, op) == fault = "none" /\ pc[t] = "idle" /\ result[t].op = op

\* The operations of the claim that are one kernel service each.
SingleCallOps == {"lock", "try_lock", "unlock", "acquire", "try_acquire",
                  "suspend", "resume", "set_priority", "sleep_for"}

\* The operations of the claim.
PublicOps == SingleCallOps \cup {"release", "join", "~thread"}

\* C15, as stated: every public operation makes exactly one kernel call per
\* invocation.
OneKernelCall ==
    \A t \in Threads, op \in PublicOps : returned(t, op) => calls[t] = 1

\* The kernel calls of the operation of t that has returned.
KernelCalls(t) ==
    /\ \A op \in SingleCallOps : returned(t, op) => calls[t] = 1
    /\ returned(t, "release") => update_[t] = 0 /\ calls[t] \in 0..MaxUpdate
    /\ returned(t, "join") => calls[t] \in {4, 5}
    /\ returned(t, "~thread") => calls[t] \in {1, 2}

\* The kernel calls of a step of release(update), join() and ~thread() in
\* thread t, the step being told by the position of t.
KernelCallsStep(t) ==
    /\ pc[t] = "idle" /\ pc'[t] = "put" =>
          calls'[t] = 0 /\ success_'[t] /\ update_'[t] \in 0..MaxUpdate
    /\ pc[t] = "put" /\ pc'[t] = "put" /\ calls'[t] # calls[t] =>
          /\ put_while(success_[t], update_[t])
          /\ calls'[t] = calls[t] + 1
          /\ update_'[t] = update_[t] - 1
    /\ pc[t] = "put" /\ calls'[t] = calls[t] => update_'[t] = update_[t]
    /\ pc[t] = "put" /\ pc'[t] = "idle" =>
          calls'[t] = calls[t] /\ (update_[t] = 0 \/ ~success_[t])
    /\ pc[t] = "idle" /\ pc'[t] = "set_entry_exit_callback" =>
          calls'[t] = 1 + join_identify(t) /\ join_identify(t) \in {1, 2}
    /\ pc[t] \in {"set_entry_exit_callback", "acquire"} /\ pc'[t] # pc[t] =>
          calls'[t] = calls[t] + 1
    /\ pc[t] \in {"entry_exit_param_", "acquire_wait", "joined"} =>
          calls'[t] = calls[t]
    /\ pc[t] = "idle" /\ pc'[t] = "tx_thread_delete" =>
          calls'[t] = IF tx_thread_state[Target] # "TX_COMPLETED" THEN 1 ELSE 0
    /\ pc[t] = "tx_thread_delete" /\ pc'[t] = "idle" =>
          calls'[t] = calls[t] + 1

\* C15, amended: lock, try_lock, unlock, acquire, try_acquire, suspend,
\* resume, set_priority and sleep_for make exactly one kernel call per
\* invocation; release(update) makes one tx_semaphore_put per unit, update
\* calls in all and none for release(0); join() makes three calls
\* (tx_semaphore_create, tx_thread_entry_exit_notify, tx_semaphore_get)
\* and one or two tx_thread_identify in its assertions; the destructor
\* calls tx_thread_delete, after tx_thread_terminate unless the thread is
\* TX_COMPLETED.
KernelCallsPerOperation ==
    /\ [](\A t \in Threads : KernelCalls(t))
    /\ [](\A update \in 0..MaxUpdate :
            ~invalid(K, sem) => semaphore_put(K, sem, update).calls = update)
    /\ [][\A t \in Threads : KernelCallsStep(t)]_vars

\* A release(2) has returned after two kernel calls and a try_acquire after
\* one.
KernelCallsWitness ==
    \E t \in Threads, u \in Threads :
        /\ returned(t, "release")
        /\ calls[t] = 2
        /\ returned(u, "try_acquire")
        /\ calls[u] = 1

----------------------------------------------------------------------------
\* Claims about the exit callback

\* The step in which the kernel calls join_exit_callback(Target,
\* TX_THREAD_EXIT): Target finishes while the callback is registered.
exit_notified ==
    /\ ~finished(Target)
    /\ tx_thread_state'[Target] \in {"TX_COMPLETED", "TX_TERMINATED"}
    /\ tx_thread_entry_exit_notify[Target] # NULL

\* C16: whenever join_exit_callback runs for the exit of a thread, the
\* thread's entry_exit_param_ is not null and points to the binary
\* semaphore of a join() that is still in progress, in every interleaving.
ExitCallbackParam ==
    [][exit_notified =>
          /\ get_entry_exit_param(Target) # NULL
          /\ \E j \in Threads :
                /\ inJoin(j)
                /\ get_entry_exit_param(Target) = exit_cond(j)]_vars

----------------------------------------------------------------------------
\* Claims about errors

\* The timed and the non-blocking operations that return what get() returns.
TryGets == {"try_lock", "try_lock_for", "mutex::try_acquire_until",
            "try_acquire", "try_acquire_for", "try_acquire_until"}

\* The semaphore pointers put() is called with: the semaphores, created or
\* not, and the null pointer.
Pointers == Sems \cup {NULL}

\* C17: no retry above the kernel.  A timed or non-blocking get of the mutex
\* or the semaphore makes one kernel call and returns true iff the status
\* of that call is TX_SUCCESS; put(update), from any state, stops at the
\* first tx_semaphore_put that fails, makes no further put and does not
\* repeat the failed one, so it makes at most update kernel puts.
NoRetry ==
    /\ \A t \in Threads, op \in TryGets :
          returned(t, op) =>
              /\ calls[t] = 1
              /\ result[t].value = (status_[t] = "TX_SUCCESS")
    /\ \A s \in Pointers, update \in 0..MaxUpdate :
          LET r == semaphore_put(K, s, update) IN
              /\ r.calls <= update
              /\ IF invalid(K, s)
                 THEN /\ r.calls = (IF update > 0 THEN 1 ELSE 0)
                      /\ r.success = (update = 0)
                      /\ r.k = K
                 ELSE /\ r.calls = update
                      /\ r.success

\* A try_acquire_for has returned false after its one kernel call, which
\* timed out, while the clock went on, and a put through a null pointer
\* would fail at its first call.
NoRetryWitness ==
    \E t \in Threads :
        /\ returned(t, "try_acquire_for")
        /\ ~result[t].value
        /\ status_[t] = "TX_NO_INSTANCE"
        /\ calls[t] = 1
        /\ tx_timer_system_clock > 1
        /\ semaphore_put(K, NULL, MaxUpdate).calls = 1

=============================================================================
